---- MODULE Spec2Model ----
(***************************************************************************)
(* Customer export service: the job table and the customer cache of        *)
(* database.ts, the in-memory lock table and the start / resume handlers   *)
(* of server.ts, the resume command of cli.ts and the checkpointed fetch   *)
(* loop fetchAndSaveCustomers of export-service.ts.                        *)
(*                                                                         *)
(* fetchAndSaveCustomers is the listing in README.md:416-654 with the four *)
(* changes of the resume feature listed in IMPLEMENTATION-SUMMARY.md:71-102*)
(* (start cursor and running total taken from the job, cursor saved with   *)
(* each batch, lastCursor: undefined on success, cursor kept on failure).  *)
(*                                                                         *)
(* One Node server process runs the handlers and one background task per   *)
(* locked store; a CLI invocation is a second operating-system process on  *)
(* the same SQLite file.  Inside the server only one task executes between *)
(* two awaits (variable busy); every SQL statement is one step, so the CLI *)
(* process and a crash can fall between any two statements.  The answer of  *)
(* a request (variable resp) reaches its client before the next step.      *)
(***************************************************************************)
EXTENDS Integers, Sequences, FiniteSets, TLC

\* ------------------------------------------------------------------ bounds
MaxRuns == 2
MaxFaults == 1

\* --------------------------------------------------------------- constants
\* page size of one request (250 in the source, scaled down)
CUSTOMERS_PER_REQUEST == 2

\* the configured stores (two of the keys of storeConfigs)
storeConfigs == {"A", "B"}

\* the server's tasks are named by the store whose lock they hold
Procs == storeConfigs \cup {"cli"}

\* job id of "no job" (jobId undefined / null row)
NoJob == <<"none", 0>>

\* a req.body.jobId that is the id of no row
UnknownJob == <<"none", 1>>

\* the messages a failed page request can end with
FetchErrors == {"Invalid response from Shopify API"}

CacheError == "SQLITE_ERROR"

\* the payload of a customer as the shop sends it: a plain text field and
\* the note, each a sequence of characters
Payload ==
  [firstName |-> <<"a">>, note |-> <<"v">>, verifiedEmail |-> <<"true">>,
   numberOfOrders |-> <<"1">>, tags |-> <<<<"t">>>>]

VARIABLES
  jobs,           \* table export_jobs, rows in insertion order
  customers,      \* table customers, a set of rows with primary key id
  activeExports,  \* server.ts: the stores with an entry in the Map
  task,           \* per process: the position of its run of fetchAndSaveCustomers
  busy,           \* the server task that runs between two awaits, or "none"
  now,            \* the clock: the time of the last createExportJob or saveCustomers
  upstream,       \* per store: the customers of the shop, in listing order
  resp,           \* the response or exit code of the step just taken, if it gave one
  faults,         \* the number of process kills and database read errors so far
  runs,           \* the number of runs of fetchAndSaveCustomers begun
  configured,     \* the stores whose domain and access token are set
  tx,             \* the open transaction of saveCustomers, when its rows are followed
  csv             \* the last file of exportCustomersToCSV, when its text is followed

vars == <<jobs, customers, activeExports, task, busy, now, upstream, resp,
          faults, runs, configured, tx, csv>>

\* what no step of the service changes
env == <<upstream, faults, runs, configured, tx, csv>>

\* ----------------------------------------------------------------- helpers
Min(a, b) == IF a < b THEN a ELSE b

Range(f) == {f[i] : i \in DOMAIN f}

\* the shop's customers: A has one full and one partial page, B two full pages
UpstreamDefault ==
  [s \in storeConfigs |->
     IF s = "A" THEN [i \in 1..(CUSTOMERS_PER_REQUEST + 1) |-> i]
                ELSE [i \in 1..(2 * CUSTOMERS_PER_REQUEST) |-> 100 + i]]

\* customers(first: n, after: cursor): the cursor of an edge is its position
\* in the listing, null is 0
PageEdges(s, cursor) ==
  {i \in 1..Len(upstream[s]) : i > cursor /\ i <= cursor + CUSTOMERS_PER_REQUEST}

PageNodes(s, cursor) ==
  [k \in 1..Cardinality(PageEdges(s, cursor)) |->
     [id |-> upstream[s][cursor + k], data |-> Payload]]

\* pageInfo.endCursor: the cursor of the last edge, null for an empty page
EndCursor(s, cursor) ==
  IF PageEdges(s, cursor) = {} THEN 0
  ELSE Min(cursor + CUSTOMERS_PER_REQUEST, Len(upstream[s]))

\* the shop reports no further page after any page
HasNextPage_Never(s, cursor) == FALSE

\* the shop reports a further page after every page
HasNextPage_Always(s, cursor) == TRUE

\* pageInfo.hasNextPage
HasNextPage(s, cursor) ==
  PageEdges(s, cursor) # {} /\ EndCursor(s, cursor) < Len(upstream[s])

\* ------------------------------------------------------------- database.ts
JobIds == {jobs[i].id : i \in DOMAIN jobs}

JobIndex(id) == CHOOSE i \in DOMAIN jobs : jobs[i].id = id

\* getExportJob: the row, for an id that is in the table
getExportJob(id) == jobs[JobIndex(id)]

\* createExportJob: the inserted row
NewJob(s, t) ==
  [id |-> <<s, t>>, storeName |-> s, status |-> "pending",
   totalCustomers |-> 0, processedCustomers |-> 0, startedAt |-> t,
   completedAt |-> 0, error |-> "", csvFilePath |-> "", lastCursor |-> 0]

\* a key whose value is undefined in an updates object
Undefined == -1

\* updateExportJob: a column is written when its key passes the function's
\* condition: truthy for status, completedAt, error and csvFilePath,
\* !== undefined for the two counters and lastCursor
Written(f, v) ==
  IF f \in {"status", "error", "csvFilePath"} THEN v # ""
  ELSE IF f = "completedAt" THEN v # 0
  ELSE v # Undefined

\* an UPDATE that also sets started_at
updateExportJob_Restamp(id, updates) ==
  [jobs EXCEPT ![JobIndex(id)].startedAt = @ + 1]

updateExportJob(id, updates) ==
  [jobs EXCEPT ![JobIndex(id)] =
     [f \in DOMAIN @ |->
        IF f \in DOMAIN updates /\ Written(f, updates[f]) THEN updates[f] ELSE @[f]]]

\* WHERE store_name = ? (the ids of one store differ in their timestamp)
StoreJobs(s) == {j \in Range(jobs) : j.storeName = s}

Latest(S) == CHOOSE j \in S : \A k \in S : k.startedAt <= j.startedAt

\* the limit both resume paths pass to getExportJobsByStore
JOBS_LIMIT == 10

\* ORDER BY started_at DESC LIMIT n
RECURSIVE Newest(_, _)
Newest(S, n) ==
  IF S = {} \/ n = 0 THEN {}
  ELSE {Latest(S)} \cup Newest(S \ {Latest(S)}, n - 1)

\* getExportJobsByStore(storeName, 10)
getExportJobsByStore(s) == Newest(StoreJobs(s), JOBS_LIMIT)

\* getLatestExportJob(storeName)?.id || 'pending'
LatestJobId(s) == IF StoreJobs(s) = {} THEN NoJob ELSE Latest(StoreJobs(s)).id

\* INSERT without REPLACE into a table without a key: the old row stays
InsertRow_Append(cache, s, c, t) ==
  cache \cup {[id |-> c.id, store_name |-> s, data |-> c.data, updated_at |-> t]}

\* insert.run(customer.id, storeName, JSON.stringify(customer), ..., now):
\* INSERT OR REPLACE on the primary key id
InsertRow(cache, s, c, t) ==
  {r \in cache : r.id # c.id}
    \cup {[id |-> c.id, store_name |-> s, data |-> c.data, updated_at |-> t]}

\* insertMany: the rows of the batch in order, all with the same time
RECURSIVE Upsert(_, _, _, _)
Upsert(cache, s, page, t) ==
  IF page = <<>> THEN cache
  ELSE Upsert(InsertRow(cache, s, Head(page), t), s, Tail(page), t)

\* the transaction writes nothing and reports no error
saveCustomers_Nothing(s, page, t) == customers

\* saveCustomers as one step: the committed transaction of the batch
saveCustomers(s, page, t) == Upsert(customers, s, page, t)

\* ... FROM customers WHERE store_name = ?
RowsOf(cache, s) == {r \in cache : r.store_name = s}

\* SELECT data ... ORDER BY updated_at DESC: the query names no order for
\* rows with the same updated_at, so every order of them is a possible result
getCustomersByStore(s) ==
  LET rows == RowsOf(customers, s)
      n == Cardinality(rows)
  IN  {o \in [1..n -> rows] :
         \A i, j \in 1..n :
           i < j => o[i] # o[j] /\ o[i].updated_at >= o[j].updated_at}

\* SELECT COUNT(*) FROM customers WHERE store_name = ?
CountIn(cache, s) == Cardinality({r \in cache : r.store_name = s})

\* getCustomerCount
getCustomerCount(s) == CountIn(customers, s)

\* no file has been written
NoCsv ==
  [store |-> "none", cache |-> {}, header |-> <<>>, lines |-> <<>>,
   error |-> ""]

\* no transaction is open
NoTx == [store |-> "none", page |-> <<>>, done |-> 0, cache |-> {}, t |-> 0]

\* ------------------------------------------------------------------- tasks
\* no response
NoResp == [op |-> "none", code |-> 0, store |-> "none", jobId |-> NoJob]

Idle ==
  [pc |-> "idle", store |-> "A", jobArg |-> NoJob, argStatus |-> "none",
   startCursor |-> 0, jobId |-> NoJob, cursor |-> 0, total |-> 0,
   batchNumber |-> 0]

IsServer(p) == p \in storeConfigs

\* the answer of a request reaches its client before the next step is taken
Quiet == resp = NoResp

\* the server's event loop is free for a new request
Ready == Quiet /\ busy = "none"

\* the server's event loop runs one task at a time between awaits
CanRun(p) == Quiet /\ (IsServer(p) => busy \in {"none", p})

Hold(p) == IF IsServer(p) THEN p ELSE busy

Release(p) == IF IsServer(p) THEN "none" ELSE busy

Init ==
  /\ jobs = <<>>
  /\ customers = {}
  /\ activeExports = {}
  /\ task = [p \in Procs |-> Idle]
  /\ busy = "none"
  /\ now = 0
  /\ upstream = UpstreamDefault
  /\ resp = NoResp
  /\ faults = 0
  /\ runs = 0
  /\ configured = storeConfigs
  /\ tx = NoTx
  /\ csv = NoCsv

\* the row of "no job" (null)
NullJob == [NewJob("none", 0) EXCEPT !.status = "none"]

\* a response: the route and the store it was asked for, the HTTP status or
\* exit code, and the jobId of its body
Response(op, code, s, id) == [op |-> op, code |-> code, store |-> s, jobId |-> id]

\* the finally block left out: the entry stays
ReleaseLock_Keep(p, locks) == locks

\* the finally block sets the entry again
ReleaseLock_Set(p, locks) == IF IsServer(p) THEN locks \cup {p} ELSE locks

\* the finally block of the server's background task; a CLI run holds no lock
ReleaseLock(p, locks) == IF IsServer(p) THEN locks \ {p} ELSE locks

\* the run of process p ends: the background task's finally, or process.exit
Finish(p) ==
  /\ task' = [task EXCEPT ![p] = Idle]
  /\ activeExports' = ReleaseLock(p, activeExports)
  /\ busy' = Release(p)

\* a new run of fetchAndSaveCustomers(storeName, jobId, startCursor); job is
\* the row the caller holds (jobToResume, failedJob), NullJob for a new export
NewRun(s, job, startCursor) ==
  [Idle EXCEPT !.pc = "start", !.store = s, !.jobArg = job.id,
               !.argStatus = job.status, !.startCursor = startCursor]

\* ------------------------------------------------ server.ts: POST /api/export
\* the lock check left out: no store ever counts as locked
StartLocked_Never(s) == FALSE

\* the lock check of the start handler
StartLocked(s) == s \in activeExports

StartExportConflict(s) ==
  /\ Ready
  /\ StartLocked(s)
  /\ resp' = Response("start", 409, s, NoJob)
  /\ UNCHANGED <<jobs, customers, activeExports, task, busy, now, env>>

StartExport(s) ==
  /\ Ready
  /\ ~StartLocked(s)
  /\ runs < MaxRuns
  /\ runs' = runs + 1
  /\ activeExports' = activeExports \cup {s}
  /\ task' = [task EXCEPT ![s] = NewRun(s, NullJob, 0)]
  /\ busy' = s
  /\ resp' = Response("start", 200, s, LatestJobId(s))
  /\ UNCHANGED <<jobs, customers, now, upstream, configured, tx, csv, faults>>

\* the process ends: the lock table and the background tasks are lost
ServerDown ==
  /\ activeExports' = {}
  /\ task' = [p \in Procs |-> IF IsServer(p) THEN Idle ELSE task[p]]
  /\ busy' = "none"

\* getLatestExportJob throws after the lock is set and before the task's try,
\* so the async handler rejects.  With Express 4 the rejection is unhandled
\* and ends the process (the image runs node:20), which is started again
StartExportThrowsExit(s) ==
  /\ Ready
  /\ ~StartLocked(s)
  /\ faults < MaxFaults
  /\ faults' = faults + 1
  /\ ServerDown
  /\ resp' = NoResp
  /\ UNCHANGED <<jobs, customers, now, upstream, configured, tx, csv, runs>>

\* with Express 5 the rejection goes to the error middleware, which answers
\* 500: the process lives on and the entry of the store stays in the Map
StartExportThrowsHandled(s) ==
  /\ Ready
  /\ ~StartLocked(s)
  /\ faults < MaxFaults
  /\ faults' = faults + 1
  /\ activeExports' = activeExports \cup {s}
  /\ resp' = Response("start", 500, s, NoJob)
  /\ UNCHANGED <<jobs, customers, task, busy, now, upstream, configured, tx, csv, runs>>

\* ----------------------------------------- server.ts: POST /api/export/.../resume
ResumeLocked(s) == s \in activeExports

\* the status check left out: a job of any status is resumed
Resumable_Any(status) == TRUE

\* the statuses the resume handler accepts
Resumable(status) == status \in {"failed", "in_progress"}

\* the cursor check left out: every job counts as having a cursor
HasCursor_Always(job) == TRUE

\* !jobToResume.lastCursor / !failedJob.lastCursor, negated
HasCursor(job) == job.lastCursor # 0

\* the values of req.body.jobId: the id of a row, none, the id of no row
ResumeIds == JobIds \cup {NoJob, UnknownJob}

\* the job the handler picks: the row of req.body.jobId, else the newest
\* failed or in_progress job of the store (an id that is not in the table
\* gives null, the same as no id)
JobToResume(s, id) ==
  IF id \in JobIds THEN getExportJob(id)
  ELSE LET c == {j \in getExportJobsByStore(s) : Resumable(j.status)}
       IN  IF c = {} THEN NullJob ELSE Latest(c)

ResumeConflict(s, id) ==
  /\ Ready
  /\ ResumeLocked(s)
  /\ resp' = Response("resume", 409, s, NoJob)
  /\ UNCHANGED <<jobs, customers, activeExports, task, busy, now, env>>

ResumeNotFound(s, id) ==
  /\ Ready
  /\ ~ResumeLocked(s)
  /\ JobToResume(s, id) = NullJob
  /\ resp' = Response("resume", 404, s, NoJob)
  /\ UNCHANGED <<jobs, customers, activeExports, task, busy, now, env>>

ResumeBadStatus(s, id) ==
  /\ Ready
  /\ ~ResumeLocked(s)
  /\ JobToResume(s, id) # NullJob
  /\ ~Resumable(JobToResume(s, id).status)
  /\ resp' = Response("resume", 400, s, JobToResume(s, id).id)
  /\ UNCHANGED <<jobs, customers, activeExports, task, busy, now, env>>

ResumeNoCursor(s, id) ==
  /\ Ready
  /\ ~ResumeLocked(s)
  /\ JobToResume(s, id) # NullJob
  /\ Resumable(JobToResume(s, id).status)
  /\ ~HasCursor(JobToResume(s, id))
  /\ resp' = Response("resume", 400, s, JobToResume(s, id).id)
  /\ UNCHANGED <<jobs, customers, activeExports, task, busy, now, env>>

ResumeExport(s, id) ==
  /\ Ready
  /\ ~ResumeLocked(s)
  /\ JobToResume(s, id) # NullJob
  /\ Resumable(JobToResume(s, id).status)
  /\ HasCursor(JobToResume(s, id))
  /\ runs < MaxRuns
  /\ runs' = runs + 1
  /\ activeExports' = activeExports \cup {s}
  /\ task' = [task EXCEPT ![s] =
       NewRun(s, JobToResume(s, id), JobToResume(s, id).lastCursor)]
  /\ busy' = s
  /\ resp' = Response("resume", 200, s, JobToResume(s, id).id)
  /\ UNCHANGED <<jobs, customers, now, upstream, configured, tx, csv, faults>>

\* --------------------------------------------------------------- cli.ts
\* fetch: a new export (both is fetch followed by csv)
CliFetch(s) ==
  /\ Quiet
  /\ task["cli"].pc = "idle"
  /\ runs < MaxRuns
  /\ runs' = runs + 1
  /\ task' = [task EXCEPT !["cli"] = NewRun(s, NullJob, 0)]
  /\ resp' = NoResp
  /\ UNCHANGED <<jobs, customers, activeExports, busy, now, upstream, configured, tx, csv, faults>>

\* resume: jobs.find(job => job.status === 'failed')
CliFailedJob(s) ==
  LET c == {j \in getExportJobsByStore(s) : j.status = "failed"}
  IN  IF c = {} THEN NullJob ELSE Latest(c)

CliResumeRejected(s) ==
  /\ Quiet
  /\ task["cli"].pc = "idle"
  /\ CliFailedJob(s) = NullJob \/ ~HasCursor(CliFailedJob(s))
  /\ resp' = Response("cli-resume", 1, s, NoJob)
  /\ UNCHANGED <<jobs, customers, activeExports, task, busy, now, env>>

CliResume(s) ==
  /\ Quiet
  /\ task["cli"].pc = "idle"
  /\ CliFailedJob(s) # NullJob
  /\ HasCursor(CliFailedJob(s))
  /\ runs < MaxRuns
  /\ runs' = runs + 1
  /\ task' = [task EXCEPT !["cli"] =
       NewRun(s, CliFailedJob(s), CliFailedJob(s).lastCursor)]
  /\ resp' = NoResp
  /\ UNCHANGED <<jobs, customers, activeExports, busy, now, upstream, configured, tx, csv, faults>>

\* ------------------------------------- export-service.ts: fetchAndSaveCustomers
\* createShopifyClient(storeName) throws for a store without domain or
\* access token: the error leaves fetchAndSaveCustomers before its first
\* statement on the database, and the caller's finally releases the lock
FetchConfigThrows(p) ==
  /\ task[p].pc = "start"
  /\ CanRun(p)
  /\ task[p].store \notin configured
  /\ Finish(p)
  /\ resp' = NoResp
  /\ UNCHANGED <<jobs, customers, now, env>>

\* const job = jobId ? getExportJob(jobId) : null, for a job that exists:
\* the run continues the row; cursor = startCursor || null and
\* totalCustomers = job?.processedCustomers || 0
StartTotal(job) == job.processedCustomers

\* the run computes a cursor of its own from the one it was given
StartCursor_Skip(startCursor) == startCursor + 1

\* let cursor = startCursor || null
StartCursor(startCursor) == startCursor

FetchStartExisting(p) ==
  /\ task[p].pc = "start"
  /\ CanRun(p)
  /\ task[p].store \in configured
  /\ task[p].jobArg \in JobIds
  /\ task' = [task EXCEPT ![p].pc = "setInProgress",
                          ![p].jobId = task[p].jobArg,
                          ![p].startCursor = 0,
                          ![p].cursor = StartCursor(task[p].startCursor),
                          ![p].total = StartTotal(getExportJob(task[p].jobArg))]
  /\ busy' = Hold(p)
  /\ resp' = NoResp
  /\ UNCHANGED <<jobs, customers, activeExports, now, env>>

\* no job id: createExportJob inserts a pending row named by store and clock.
\* The clock has advanced since the last insert (the other case is the next
\* action; a same-millisecond insert for another store differs from this
\* one only in the names of the timestamps)
FetchStartCreate(p) ==
  /\ task[p].pc = "start"
  /\ CanRun(p)
  /\ task[p].store \in configured
  /\ task[p].jobArg \notin JobIds
  /\ now' = now + 1
  /\ jobs' = Append(jobs, NewJob(task[p].store, now + 1))
  /\ task' = [task EXCEPT ![p].pc = "setInProgress",
                          ![p].jobId = <<task[p].store, now + 1>>,
                          ![p].startCursor = 0,
                          ![p].cursor = StartCursor(task[p].startCursor),
                          ![p].total = 0]
  /\ busy' = Hold(p)
  /\ resp' = NoResp
  /\ UNCHANGED <<customers, activeExports, env>>

\* the clock has not advanced since the last insert, which was for the same
\* store: the INSERT fails on the primary key and the error leaves
\* fetchAndSaveCustomers before its try block
FetchStartCreateThrows(p) ==
  /\ task[p].pc = "start"
  /\ CanRun(p)
  /\ task[p].store \in configured
  /\ task[p].jobArg \notin JobIds
  /\ <<task[p].store, now>> \in JobIds
  /\ Finish(p)
  /\ resp' = NoResp
  /\ UNCHANGED <<jobs, customers, now, env>>

\* updateExportJob(exportJobId, { status: 'in_progress' }), then the first
\* page request is sent with the start cursor
FetchSetInProgress(p) ==
  /\ task[p].pc = "setInProgress"
  /\ CanRun(p)
  /\ jobs' = updateExportJob(task[p].jobId, [status |-> "in_progress"])
  /\ task' = [task EXCEPT ![p].pc = "waiting", ![p].batchNumber = @ + 1]
  /\ busy' = Release(p)
  /\ resp' = NoResp
  /\ UNCHANGED <<customers, activeExports, now, env>>

\* the catch block records the error but not the status
FailedUpdates_NoStatus(e) == [status |-> "", error |-> e, completedAt |-> 1]

\* the catch block also resets the cursor
FailedUpdates_ClearCursor(e) ==
  [status |-> "failed", error |-> e, completedAt |-> 1, lastCursor |-> 0]

\* the catch block also resets the processed count
FailedUpdates_ResetCount(e) ==
  [status |-> "failed", error |-> e, completedAt |-> 1, processedCustomers |-> 0]

\* the update of the catch block
FailedUpdates(e) == [status |-> "failed", error |-> e, completedAt |-> 1]

\* catch: the job is marked failed and the error is thrown to the caller,
\* whose catch logs it and whose finally releases the lock
Fail(p, e) ==
  /\ jobs' = updateExportJob(task[p].jobId, FailedUpdates(e))
  /\ Finish(p)

\* the request rejects, or the response has errors or no data
FetchError(p, e) ==
  /\ task[p].pc = "waiting"
  /\ CanRun(p)
  /\ Fail(p, e)
  /\ resp' = NoResp
  /\ UNCHANGED <<customers, now, env>>

\* the response holds customers: saveCustomers(storeName, customers); Spec
\* takes the transaction as one step and does not follow the time of a save
SavePage(p) ==
  /\ task[p].pc = "waiting"
  /\ CanRun(p)
  /\ PageEdges(task[p].store, task[p].cursor) # {}
  /\ customers' = saveCustomers(task[p].store,
                                PageNodes(task[p].store, task[p].cursor), 0)
  /\ task' = [task EXCEPT ![p].pc = "checkpoint"]
  /\ busy' = Hold(p)
  /\ resp' = NoResp
  /\ UNCHANGED <<jobs, activeExports, now, env>>

\* the transaction of saveCustomers fails and is rolled back
SavePageThrows(p) ==
  /\ task[p].pc = "waiting"
  /\ CanRun(p)
  /\ PageEdges(task[p].store, task[p].cursor) # {}
  /\ Fail(p, CacheError)
  /\ resp' = NoResp
  /\ UNCHANGED <<customers, now, env>>

\* the progress update after a saved batch
ProgressUpdates(total, nextCursor) ==
  [processedCustomers |-> total, lastCursor |-> nextCursor]

\* totalCustomers += customers.length; updateExportJob(progress); then
\* hasNextPage and cursor are taken from pageInfo
Checkpoint(p) ==
  /\ task[p].pc = "checkpoint"
  /\ CanRun(p)
  /\ LET s == task[p].store
         c == task[p].cursor
         total == task[p].total + Cardinality(PageEdges(s, c))
     IN  /\ jobs' = updateExportJob(task[p].jobId, ProgressUpdates(total, EndCursor(s, c)))
         /\ task' = [task EXCEPT ![p].pc = IF HasNextPage(s, c) THEN "delay" ELSE "complete",
                                 ![p].total = total,
                                 ![p].cursor = EndCursor(s, c)]
         /\ busy' = IF HasNextPage(s, c) THEN Release(p) ELSE Hold(p)
  /\ resp' = NoResp
  /\ UNCHANGED <<customers, activeExports, now, env>>

\* DELAY_BETWEEN_REQUESTS_MS has passed: the next page is requested
Delay(p) ==
  /\ task[p].pc = "delay"
  /\ CanRun(p)
  /\ task' = [task EXCEPT ![p].pc = "waiting", ![p].batchNumber = @ + 1]
  /\ resp' = NoResp
  /\ UNCHANGED <<jobs, customers, activeExports, busy, now, env>>

\* a run that saved nothing is recorded as failed
CompletedUpdates_Failed(total) ==
  [status |-> IF total = 0 THEN "failed" ELSE "completed",
   totalCustomers |-> total, completedAt |-> 1, lastCursor |-> Undefined]

\* the update that marks the job completed (lastCursor: undefined)
CompletedUpdates(total) ==
  [status |-> "completed", totalCustomers |-> total, completedAt |-> 1,
   lastCursor |-> Undefined]

\* the loop has ended: the job is marked completed and the function returns;
\* the caller generates the CSV or ends (exportCsv of the request body is
\* read only here, so its value is drawn here; the CLI's fetch and resume
\* have no CSV step)
MarkCompleted(p, exportCsv) ==
  /\ jobs' = updateExportJob(task[p].jobId, CompletedUpdates(task[p].total))
  /\ IF exportCsv
     THEN /\ task' = [task EXCEPT ![p].pc = "csv"]
          /\ busy' = Release(p)
          /\ UNCHANGED activeExports
     ELSE Finish(p)

\* after the last saved page
Complete(p) ==
  /\ task[p].pc = "complete"
  /\ CanRun(p)
  /\ \E exportCsv \in {FALSE, IsServer(p)} : MarkCompleted(p, exportCsv)
  /\ resp' = NoResp
  /\ UNCHANGED <<customers, now, env>>

\* the response holds no customer: nothing is saved, hasNextPage is false
FetchEmptyPage(p) ==
  /\ task[p].pc = "waiting"
  /\ CanRun(p)
  /\ PageEdges(task[p].store, task[p].cursor) = {}
  /\ \E exportCsv \in {FALSE, IsServer(p)} : MarkCompleted(p, exportCsv)
  /\ resp' = NoResp
  /\ UNCHANGED <<customers, now, env>>

\* the check of the customers read left out
HasCustomers_Always(s) == TRUE

\* exportCustomersToCSV: customers.length === 0, negated
HasCustomers(s) == getCustomerCount(s) # 0

\* exportCustomersToCSV(storeName, jobId) writes the file and its path
CsvDone(p) ==
  /\ task[p].pc = "csv"
  /\ CanRun(p)
  /\ HasCustomers(task[p].store)
  /\ jobs' = updateExportJob(task[p].jobId, [csvFilePath |-> "file"])
  /\ Finish(p)
  /\ resp' = NoResp
  /\ UNCHANGED <<customers, now, env>>

\* exportCustomersToCSV throws: no customers, or the stream fails; the
\* task's catch logs the error
CsvThrows(p) ==
  /\ task[p].pc = "csv"
  /\ CanRun(p)
  /\ Finish(p)
  /\ resp' = NoResp
  /\ UNCHANGED <<jobs, customers, now, env>>

\* the client has the answer (res.json / process.exit)
ResponseSent ==
  /\ resp # NoResp
  /\ resp' = NoResp
  /\ UNCHANGED <<jobs, customers, activeExports, task, busy, now, env>>

\* ------------------------------------------------------------------ faults
\* the server process dies and is started again
ServerCrash ==
  /\ Quiet
  /\ faults < MaxFaults
  /\ faults' = faults + 1
  /\ ServerDown
  /\ resp' = NoResp
  /\ UNCHANGED <<jobs, customers, now, upstream, configured, tx, csv, runs>>

\* the CLI process is killed
CliCrash ==
  /\ Quiet
  /\ task["cli"].pc # "idle"
  /\ faults < MaxFaults
  /\ faults' = faults + 1
  /\ task' = [task EXCEPT !["cli"] = Idle]
  /\ resp' = NoResp
  /\ UNCHANGED <<jobs, customers, activeExports, busy, now, upstream, configured, tx, csv, runs>>

Next ==
  \/ \E s \in storeConfigs : StartExportConflict(s)
  \/ \E s \in storeConfigs : StartExport(s)
  \/ \E s \in storeConfigs : StartExportThrowsExit(s)
  \/ \E s \in storeConfigs : StartExportThrowsHandled(s)
  \/ \E s \in storeConfigs, id \in ResumeIds : ResumeConflict(s, id)
  \/ \E s \in storeConfigs, id \in ResumeIds : ResumeNotFound(s, id)
  \/ \E s \in storeConfigs, id \in ResumeIds : ResumeBadStatus(s, id)
  \/ \E s \in storeConfigs, id \in ResumeIds : ResumeNoCursor(s, id)
  \/ \E s \in storeConfigs, id \in ResumeIds : ResumeExport(s, id)
  \/ \E s \in storeConfigs : CliFetch(s)
  \/ \E s \in storeConfigs : CliResumeRejected(s)
  \/ \E s \in storeConfigs : CliResume(s)
  \/ \E p \in Procs : FetchStartExisting(p)
  \/ \E p \in Procs : FetchStartCreate(p)
  \/ \E p \in Procs : FetchStartCreateThrows(p)
  \/ \E p \in Procs : FetchSetInProgress(p)
  \/ \E p \in Procs : FetchEmptyPage(p)
  \/ \E p \in Procs, e \in FetchErrors : FetchError(p, e)
  \/ \E p \in Procs : SavePage(p)
  \/ \E p \in Procs : SavePageThrows(p)
  \/ \E p \in Procs : Checkpoint(p)
  \/ \E p \in Procs : Delay(p)
  \/ \E p \in Procs : Complete(p)
  \/ \E p \in Procs : CsvDone(p)
  \/ \E p \in Procs : CsvThrows(p)
  \/ ResponseSent
  \/ ServerCrash
  \/ CliCrash

Spec == Init /\ [][Next]_vars

TypeOK ==
  /\ activeExports \subseteq storeConfigs
  /\ busy \in storeConfigs \cup {"none"}
  /\ now \in 0..MaxRuns
  /\ Len(jobs) <= MaxRuns

\* ---------------------------- export-service.ts: the text of the CSV file
\* a text is a sequence of characters
Comma == ","

Quote == "\""

Newline == "\n"

Return == "\r"

\* value.replace(/"/g, '""')
RECURSIVE DoubleQuotes(_)
DoubleQuotes(value) ==
  IF value = <<>> THEN <<>>
  ELSE (IF Head(value) = Quote THEN <<Quote, Quote>> ELSE <<Head(value)>>)
         \o DoubleQuotes(Tail(value))

\* a field written as it is
escapeCSVField_Raw(value) == value

escapeCSVField(value) ==
  IF \E i \in DOMAIN value : value[i] \in {Comma, Quote, Newline, Return}
  THEN <<Quote>> \o DoubleQuotes(value) \o <<Quote>>
  ELSE value

\* a field of the payload that is null or missing
Null == <<"null">>

\* JSON.parse(row.data): the customer of a row, its id as text
Customer(row) ==
  [id |-> <<ToString(row.id)>>, firstName |-> row.data.firstName,
   note |-> row.data.note, verifiedEmail |-> row.data.verifiedEmail,
   numberOfOrders |-> row.data.numberOfOrders, tags |-> row.data.tags]

\* value || fallback: null, undefined and '' are falsy
Or(value, fallback) == IF value \in {Null, <<>>} THEN fallback ELSE value

\* value ? 'true' : 'false', the JSON booleans written as texts
TrueOrFalse(value) ==
  IF value \in {Null, <<>>, <<"false">>} THEN <<"false">> ELSE <<"true">>

\* customer.tags.join(', ')
RECURSIVE JoinTags(_)
JoinTags(tags) ==
  IF tags = <<>> THEN <<>>
  ELSE IF Len(tags) = 1 THEN tags[1]
  ELSE Head(tags) \o <<Comma, " ">> \o JoinTags(Tail(tags))

\* customer.tags.join is a TypeError for a customer without tags
Throws(customer) == customer.tags = Null

\* the names of the columns, in the order of the array
headers ==
  <<<<"id">>, <<"firstName">>, <<"verifiedEmail">>, <<"note">>, <<"tags">>,
    <<"numberOfOrders">>>>

\* customerToCSVRow: the values of the row object in the order of its keys.
\* firstName stands for the columns read with || '', verifiedEmail for the
\* two booleans, note is the column whose quotes are doubled here,
\* tags is joined, numberOfOrders stands for the two columns read with
\* || '0'; the columns of nested objects and the three JSON columns are left
\* out. Evaluated for a customer whose tags are a list: see Throws
customerToCSVRow(customer) ==
  <<Or(customer.id, <<>>),
    Or(customer.firstName, <<>>),
    TrueOrFalse(customer.verifiedEmail),
    DoubleQuotes(Or(customer.note, <<>>)),
    JoinTags(customer.tags),
    Or(customer.numberOfOrders, <<"0">>)>>

\* headers.join(',')
RECURSIVE JoinComma(_)
JoinComma(names) ==
  IF Len(names) = 1 THEN names[1]
  ELSE Head(names) \o <<Comma>> \o JoinComma(Tail(names))

\* csvRowToLine: Object.values(row).map(escapeCSVField).join(',')
RECURSIVE csvRowToLine(_)
csvRowToLine(row) ==
  IF Len(row) = 1 THEN escapeCSVField(row[1])
  ELSE escapeCSVField(Head(row)) \o <<Comma>> \o csvRowToLine(Tail(row))

\* the lines written before the loop reaches a customer that throws
RECURSIVE WrittenLines(_)
WrittenLines(o) ==
  IF o = <<>> \/ Throws(Customer(Head(o))) THEN <<>>
  ELSE <<csvRowToLine(customerToCSVRow(Customer(Head(o))))>>
         \o WrittenLines(Tail(o))

\* exportCustomersToCSV(storeName) with the text of its file: the header,
\* then one line per customer in the order of getCustomersByStore
WriteCsv(s) ==
  /\ HasCustomers(s)
  /\ \A r \in RowsOf(customers, s) : ~Throws(Customer(r))
  /\ \E o \in getCustomersByStore(s) :
       csv' = [store |-> s, cache |-> RowsOf(customers, s),
               header |-> JoinComma(headers),
               lines |-> WrittenLines(o),
               error |-> ""]
  /\ UNCHANGED <<jobs, customers, activeExports, task, busy, now, upstream,
                 resp, faults, runs, configured, tx>>

\* exportCustomersToCSV(storeName) for a cache with a customer that throws:
\* the file keeps the header and the lines written before it
WriteCsvThrows(s) ==
  /\ HasCustomers(s)
  /\ \E r \in RowsOf(customers, s) : Throws(Customer(r))
  /\ \E o \in getCustomersByStore(s) :
       csv' = [store |-> s, cache |-> RowsOf(customers, s),
               header |-> JoinComma(headers),
               lines |-> WrittenLines(o),
               error |-> "TypeError"]
  /\ UNCHANGED <<jobs, customers, activeExports, task, busy, now, upstream,
                 resp, faults, runs, configured, tx>>

\* ------------------------------------------- the cache, one row at a time
\* saveCustomers followed statement by statement: BEGIN, one INSERT OR
\* REPLACE per customer of the batch, COMMIT. The readers (getCustomersByStore,
\* getCustomerCount) are other statements of the same connection or of the
\* command line's process: they see the committed table, customers.
MaxSaves == 2
MaxPageLen == 2

CacheIds == {1, 2}

Payloads == {Payload, [Payload EXCEPT !.note = <<"w">>]}

CacheCustomers == [id : CacheIds, data : Payloads]

\* the batches saveCustomers is called with
Pages == UNION {[1..n -> CacheCustomers] : n \in 0..MaxPageLen}

\* a statement inside a transaction is journalled and not committed
AfterInsert_AutoCommit(committed, working) == working

\* the committed table after a statement of an open transaction
AfterInsert(committed, working) == committed

\* insertMany(customers) is entered: BEGIN, now = new Date()
BeginSave(s, page) ==
  /\ tx = NoTx
  /\ now < MaxSaves
  /\ now' = now + 1
  /\ tx' = [store |-> s, page |-> page, done |-> 0, cache |-> customers,
            t |-> now + 1]
  /\ UNCHANGED <<jobs, customers, activeExports, task, busy, upstream, resp,
                 faults, runs, configured, csv>>

\* insert.run(...) of the next customer of the batch
InsertNext ==
  /\ tx # NoTx
  /\ tx.done < Len(tx.page)
  /\ tx' = [tx EXCEPT !.done = @ + 1,
                      !.cache = InsertRow(@, tx.store, tx.page[tx.done + 1], tx.t)]
  /\ customers' = AfterInsert(customers, tx'.cache)
  /\ UNCHANGED <<jobs, activeExports, task, busy, now, upstream, resp, faults,
                 runs, configured, csv>>

\* the function given to db.transaction returns: COMMIT
CommitSave ==
  /\ tx # NoTx
  /\ tx.done = Len(tx.page)
  /\ customers' = tx.cache
  /\ tx' = NoTx
  /\ UNCHANGED <<jobs, activeExports, task, busy, now, upstream, resp, faults,
                 runs, configured, csv>>

\* a statement throws (ROLLBACK by db.transaction) or the process dies before
\* COMMIT (the journal is rolled back when the file is next opened)
AbortSave ==
  /\ tx # NoTx
  /\ tx' = NoTx
  /\ UNCHANGED <<jobs, customers, activeExports, task, busy, now, upstream,
                 resp, faults, runs, configured, csv>>

NextCache ==
  \/ \E s \in storeConfigs, page \in Pages : BeginSave(s, page)
  \/ InsertNext
  \/ CommitSave
  \/ AbortSave

SpecCache == Init /\ [][NextCache]_vars

\* ------------------------------------------------ the cache and its files
\* saveCustomers as one committed transaction at the time of its call, and
\* exportCustomersToCSV with the text of its file
SaveBatch(s, page) ==
  /\ now < MaxSaves
  /\ now' = now + 1
  /\ customers' = saveCustomers(s, page, now + 1)
  /\ UNCHANGED <<jobs, activeExports, task, busy, upstream, resp, faults,
                 runs, configured, tx, csv>>

NextExport ==
  \/ \E s \in storeConfigs, page \in Pages : SaveBatch(s, page)
  \/ \E s \in storeConfigs : WriteCsv(s)

SpecExport == Init /\ [][NextExport]_vars

\* ------------------------------------------------ deleteCustomersByStore
\* DELETE FROM customers WHERE store_name = ?
deleteCustomersByStore(s) == {r \in customers : r.store_name # s}

\* a call of deleteCustomersByStore(s)
Purge(s) ==
  /\ customers' = deleteCustomersByStore(s)
  /\ UNCHANGED <<jobs, activeExports, task, busy, now, upstream, resp, faults,
                 runs, configured, tx, csv>>

\* batches are saved, files are written and stores are purged in any order
NextPurge ==
  \/ \E s \in storeConfigs, page \in Pages : SaveBatch(s, page)
  \/ \E s \in storeConfigs : WriteCsv(s)
  \/ \E s \in storeConfigs : Purge(s)

SpecPurge == Init /\ [][NextPurge]_vars

\* ----------------------------------- a shop of any size and an unset store
\* The server alone, with a shop of 0..MaxRecords customers behind store A
\* and store B without its environment variables; requests may name a store
\* that is no key of storeConfigs.  Page requests and saves may fail; the
\* process is not killed.
MaxRecords == 5

UnknownStore == "X"

StoreNames == storeConfigs \cup {UnknownStore}

Routes == {"start", "resume", "status", "history", "csv"}

\* the validation left out: every name counts as a store
ValidStore_Any(name) == TRUE

\* storeName in storeConfigs
ValidStore(name) == name \in storeConfigs

\* Validate store name: each of the five routes answers 400 and returns
InvalidStore(op, name) ==
  /\ Ready
  /\ ~ValidStore(name)
  /\ resp' = Response(op, 400, name, NoJob)
  /\ UNCHANGED <<jobs, customers, activeExports, task, busy, now, env>>

\* POST /api/export-csv/:storeName: exportCustomersToCSV(storeName) without
\* a job id writes the file only; 500 when it throws
ExportCsv(s) ==
  /\ Ready
  /\ ValidStore(s)
  /\ resp' = Response("csv", IF HasCustomers(s) THEN 200 ELSE 500, s, NoJob)
  /\ UNCHANGED <<jobs, customers, activeExports, task, busy, now, env>>

InitSolo ==
  /\ jobs = <<>>
  /\ customers = {}
  /\ activeExports = {}
  /\ task = [p \in Procs |-> Idle]
  /\ busy = "none"
  /\ now = 0
  /\ upstream \in {[UpstreamDefault EXCEPT !["A"] = [i \in 1..n |-> i]] :
                      n \in 0..MaxRecords}
  /\ resp = NoResp
  /\ faults = 0
  /\ runs = 0
  /\ configured = {"A"}
  /\ tx = NoTx
  /\ csv = NoCsv

NextSolo ==
  \/ \E op \in Routes, name \in StoreNames : InvalidStore(op, name)
  \/ \E s \in storeConfigs : ExportCsv(s)
  \/ \E s \in storeConfigs : StartExportConflict(s)
  \/ \E s \in storeConfigs : StartExport(s)
  \/ \E s \in storeConfigs, id \in ResumeIds : ResumeConflict(s, id)
  \/ \E s \in storeConfigs, id \in ResumeIds : ResumeNotFound(s, id)
  \/ \E s \in storeConfigs, id \in ResumeIds : ResumeBadStatus(s, id)
  \/ \E s \in storeConfigs, id \in ResumeIds : ResumeNoCursor(s, id)
  \/ \E s \in storeConfigs, id \in ResumeIds : ResumeExport(s, id)
  \/ \E p \in storeConfigs : FetchConfigThrows(p)
  \/ \E p \in storeConfigs : FetchStartExisting(p)
  \/ \E p \in storeConfigs : FetchStartCreate(p)
  \/ \E p \in storeConfigs : FetchSetInProgress(p)
  \/ \E p \in storeConfigs : FetchEmptyPage(p)
  \/ \E p \in storeConfigs, e \in FetchErrors : FetchError(p, e)
  \/ \E p \in storeConfigs : SavePage(p)
  \/ \E p \in storeConfigs : SavePageThrows(p)
  \/ \E p \in storeConfigs : Checkpoint(p)
  \/ \E p \in storeConfigs : Delay(p)
  \/ \E p \in storeConfigs : Complete(p)
  \/ \E p \in storeConfigs : CsvDone(p)
  \/ \E p \in storeConfigs : CsvThrows(p)
  \/ ResponseSent

SpecSolo == InitSolo /\ [][NextSolo]_vars

\* a step of the run of p: the continuation after an await, which the event
\* loop runs once the awaited request, timer or stream has settled
RunStep(p) ==
  \/ FetchConfigThrows(p)
  \/ FetchStartExisting(p)
  \/ FetchStartCreate(p)
  \/ FetchSetInProgress(p)
  \/ FetchEmptyPage(p)
  \/ \E e \in FetchErrors : FetchError(p, e)
  \/ SavePage(p)
  \/ SavePageThrows(p)
  \/ Checkpoint(p)
  \/ Delay(p)
  \/ Complete(p)
  \/ CsvDone(p)
  \/ CsvThrows(p)

\* the shop answers every request, answers are delivered, and the event
\* loop runs every continuation that is ready, however many requests arrive
FairSolo ==
  /\ SpecSolo
  /\ WF_vars(ResponseSent)
  /\ \A p \in storeConfigs : SF_vars(RunStep(p))

\* --------------------------------------------- one customer of any text
\* exportCustomersToCSV for a cache of one customer whose two text fields
\* are any texts of up to MaxFieldLen characters
MaxFieldLen == 3

Chars == {"a", Comma, Quote, Newline}

Texts == UNION {[1..n -> Chars] : n \in 0..MaxFieldLen}

InitCsv ==
  /\ jobs = <<>>
  /\ customers \in {{[id |-> 1, store_name |-> "A",
                       data |-> [Payload EXCEPT !.firstName = f, !.note = n],
                       updated_at |-> 0]} : f \in Texts, n \in Texts}
  /\ activeExports = {}
  /\ task = [p \in Procs |-> Idle]
  /\ busy = "none"
  /\ now = 0
  /\ upstream = UpstreamDefault
  /\ resp = NoResp
  /\ faults = 0
  /\ runs = 0
  /\ configured = storeConfigs
  /\ tx = NoTx
  /\ csv = NoCsv

NextCsv == \E s \in storeConfigs : WriteCsv(s)

SpecCsv == InitCsv /\ [][NextCsv]_vars

\* ------------------------------------------ payloads with absent fields
\* the values of a text field of a payload: absent, empty, a letter, and
\* the characters escapeCSVField looks for
FieldTexts == {Null, <<>>, <<"a">>, <<Comma>>, <<Quote>>, <<Newline>>}

FieldFlags == {Null, <<"true">>, <<"false">>}

FieldCounts == {Null, <<"1">>}

FieldTags == {Null, <<>>, <<<<"t">>, <<"u">>>>}

FieldPayloads ==
  [firstName : FieldTexts, note : FieldTexts, verifiedEmail : FieldFlags,
   numberOfOrders : FieldCounts, tags : FieldTags]

\* a payload with every field absent but the tags
AbsentPayload ==
  [firstName |-> Null, note |-> Null, verifiedEmail |-> Null,
   numberOfOrders |-> Null, tags |-> <<>>]

CacheRow(id, s, data) ==
  [id |-> id, store_name |-> s, data |-> data, updated_at |-> 0]

\* the cache holds customer 1 of store A with any payload, with or without
\* a second customer of A, with or without a customer of store B
InitFields ==
  /\ jobs = <<>>
  /\ \E d \in FieldPayloads :
       \E second \in {{}, {CacheRow(2, "A", Payload)},
                          {CacheRow(2, "A", AbsentPayload)}} :
         \E other \in {{}, {CacheRow(101, "B", Payload)}} :
           customers = {CacheRow(1, "A", d)} \cup second \cup other
  /\ activeExports = {}
  /\ task = [p \in Procs |-> Idle]
  /\ busy = "none"
  /\ now = 0
  /\ upstream = UpstreamDefault
  /\ resp = NoResp
  /\ faults = 0
  /\ runs = 0
  /\ configured = storeConfigs
  /\ tx = NoTx
  /\ csv = NoCsv

NextFields ==
  \/ \E s \in storeConfigs : WriteCsv(s)
  \/ \E s \in storeConfigs : WriteCsvThrows(s)

SpecFields == InitFields /\ [][NextFields]_vars

\* ------------------------------------------------------------- properties
\* a request of the server's two export routes has just been answered for s
Answered(s) == resp' # NoResp /\ resp'.store = s /\ resp'.op \in {"start", "resume"}

\* C1: while activeExports holds a store, every start or resume request for
\* that store is answered 409, and the step that answers it creates no job
\* and leaves every job, every cached record, the lock table and every
\* running task as they were
C1_ConflictWhileLocked ==
  [][\A s \in activeExports :
       Answered(s) => /\ resp'.code = 409
                      /\ UNCHANGED <<jobs, customers, activeExports, task>>]_vars

\* C1: a request was answered 409 while the store's run waits for a page,
\* sleeps between two pages or writes the CSV
C1_Witness ==
  /\ resp.code = 409
  /\ resp.store \in activeExports
  /\ task[resp.store].pc \in {"waiting", "delay", "csv"}

\* the jobs of store s that are pending or in_progress
NonTerminal(s) == {j \in StoreJobs(s) : j.status \in {"pending", "in_progress"}}

\* C2: in every reachable state each store has at most one job whose status
\* is pending or in_progress
C2_OneNonTerminalJob ==
  \A s \in storeConfigs : Cardinality(NonTerminal(s)) <= 1

\* C3: an entry of activeExports is removed on every exit path, so a store
\* is locked only while its background task is running
C3_LockHeldOnlyWhileRunning ==
  \A s \in activeExports : task[s].pc # "idle"

\* the status changes a job may make
StatusSteps ==
  {<<"pending", "in_progress">>, <<"in_progress", "completed">>,
   <<"in_progress", "failed">>, <<"failed", "in_progress">>}

\* C4: the status of a job changes only from pending to in_progress, from
\* in_progress to completed or failed, and from failed to in_progress; the
\* status of a completed job never changes
C4_StatusTransitions ==
  [][\A i \in DOMAIN jobs :
       jobs'[i].status # jobs[i].status =>
         <<jobs[i].status, jobs'[i].status>> \in StatusSteps]_vars

\* C5: no step writes a processedCustomers smaller than the stored one
C5_ProcessedNeverDecreases ==
  [][\A i \in DOMAIN jobs :
       jobs'[i].processedCustomers >= jobs[i].processedCustomers]_vars

\* task p sends the first page request of a run that continues a job
FirstRequestOfResume(p) ==
  /\ task[p].pc = "setInProgress"
  /\ task'[p].pc = "waiting"
  /\ task[p].jobArg # NoJob

\* C6: the first page request of a resumed run carries the cursor stored in
\* the job, which is not null, and its running total is the job's stored
\* processedCustomers
C6_ResumeAtCheckpoint ==
  [][\A p \in Procs :
       FirstRequestOfResume(p) =>
         /\ task'[p].cursor # 0
         /\ task'[p].cursor = getExportJob(task[p].jobId).lastCursor
         /\ task'[p].total = getExportJob(task[p].jobId).processedCustomers]_vars

\* task p, a run that was given a failed job, marks job i completed
ResumedRunCompletes(p, i) ==
  /\ task[p].argStatus = "failed"
  /\ task[p].pc \in {"waiting", "complete"}
  /\ task'[p].pc \in {"csv", "idle"}
  /\ jobs[i].id = task[p].jobId
  /\ jobs[i].status # "completed"
  /\ jobs'[i].status = "completed"

\* C7: when the run that resumed a failed job completes it, the job's
\* processedCustomers is the number of customers of the job's store and the
\* cache holds that many rows of the store
C7_ResumedTotals ==
  [][\A p \in Procs, i \in DOMAIN jobs :
       ResumedRunCompletes(p, i) =>
         LET n == Len(upstream[jobs[i].storeName])
         IN  /\ jobs'[i].processedCustomers = n
             /\ Cardinality({r \in customers' : r.store_name = jobs[i].storeName}) = n]_vars

\* task p writes the progress of the page it has saved
Checkpoints(p) ==
  task[p].pc = "checkpoint" /\ task'[p].pc \in {"delay", "complete"}

C9_CursorNullWhenCompleted ==
  \A j \in Range(jobs) :
    j.lastCursor # 0 => j.status # "completed" /\ j.processedCustomers > 0

\* a run begins on the existing job id
RunBeginsOn(p, id) ==
  task[p].pc = "idle" /\ task'[p].pc = "start" /\ task'[p].jobArg = id

\* C10: no run ever begins on a completed job; a resume request that names
\* a completed job is answered 400; and a resume request that is not
\* accepted, on the server or from the CLI, changes no job, no cached
\* record, no lock and no task
C10_CompletedNotResumed ==
  [][/\ \A p \in Procs, j \in Range(jobs) :
          j.status = "completed" => ~RunBeginsOn(p, j.id)
     /\ (/\ resp'.op = "resume"
         /\ resp'.jobId \in JobIds
         /\ getExportJob(resp'.jobId).status = "completed") => resp'.code = 400
     /\ (resp'.op \in {"resume", "cli-resume"} /\ resp'.code # 200) =>
          UNCHANGED <<jobs, customers, activeExports, task>>]_vars

\* C10: a resume request that named a completed job has been answered 400
C10_Witness ==
  /\ resp.op = "resume"
  /\ resp.code = 400
  /\ resp.jobId \in JobIds
  /\ getExportJob(resp.jobId).status = "completed"

\* C11: no run ever begins on a job whose cursor is null; a resume request
\* whose job has a null cursor is answered 400 and its step changes no job,
\* no cached record, no lock and no task
C11_NullCursorNotResumed ==
  [][/\ \A p \in Procs, j \in Range(jobs) :
          j.lastCursor = 0 => ~RunBeginsOn(p, j.id)
     /\ (/\ resp'.op = "resume"
         /\ resp'.jobId \in JobIds
         /\ getExportJob(resp'.jobId).lastCursor = 0) =>
          /\ resp'.code = 400
          /\ UNCHANGED <<jobs, customers, activeExports, task>>]_vars

\* C11: a resume request for a failed job without a cursor has been answered 400
C11_Witness ==
  /\ resp.op = "resume"
  /\ resp.code = 400
  /\ resp.jobId \in JobIds
  /\ getExportJob(resp.jobId).status = "failed"
  /\ getExportJob(resp.jobId).lastCursor = 0

\* the step is a failure inside the fetch loop of task p: a page request
\* that fails, or a page whose write to the cache fails
RunFails(p) == (\E e \in FetchErrors : FetchError(p, e)) \/ SavePageThrows(p)

\* the first page request of a run begun by start or fetch fails
FirstPageFails(p) ==
  /\ task[p].argStatus = "none"
  /\ task[p].cursor = 0
  /\ RunFails(p)

\* C12: when the first page request of a started run fails, its job is
\* failed with a null cursor and processedCustomers 0 and, on the server,
\* the lock of the store is released; a failed job with a null cursor never
\* changes again (no resume is accepted for it); and a start request is
\* answered 409 only while the store is locked, so a fresh start goes through
C12_FirstPageFailure ==
  [][/\ \A p \in Procs :
          FirstPageFails(p) =>
            LET j == jobs'[JobIndex(task[p].jobId)]
            IN  /\ j.status = "failed"
                /\ j.error # ""
                /\ j.lastCursor = 0
                /\ j.processedCustomers = 0
                /\ p \notin activeExports'
     /\ \A i \in DOMAIN jobs :
          (jobs[i].status = "failed" /\ jobs[i].lastCursor = 0) =>
            jobs'[i] = jobs[i]
     /\ \A s \in storeConfigs :
          (Answered(s) /\ resp'.op = "start" /\ resp'.code = 409) =>
            s \in activeExports]_vars

\* C12: a store has a job that failed on its first page and a newer job
\* made by a fresh start
C12_Witness ==
  \E j, k \in Range(jobs) :
    /\ j.status = "failed"
    /\ j.lastCursor = 0
    /\ j.processedCustomers = 0
    /\ k.storeName = j.storeName
    /\ k.startedAt > j.startedAt

\* C13: a step in which the fetch loop of a run fails leaves the run's job
\* with status failed and the error message stored, ends the run and, on
\* the server, removes the store from activeExports
C13_FailurePersisted ==
  [][\A p \in Procs :
       RunFails(p) =>
         LET j == jobs'[JobIndex(task[p].jobId)]
         IN  /\ j.status = "failed"
             /\ j.error \in FetchErrors \cup {CacheError}
             /\ task'[p].pc = "idle"
             /\ p \notin activeExports']_vars

\* C13: a job failed on a cache write, its error is stored and its store
\* is not locked
C13_Witness ==
  \E j \in Range(jobs) :
    j.status = "failed" /\ j.error = CacheError /\ j.storeName \notin activeExports

\* what a reader gets from a table: key, collection and payload of each row
Content(cache) ==
  {[id |-> r.id, store_name |-> r.store_name, data |-> r.data] : r \in cache}

\* C14: in every state of the cache and for every batch and store, saving
\* the batch a second time gives the same keys with the same payloads and
\* the same count of every store as saving it once.
C14_IdempotentUpsert ==
  \A s \in storeConfigs, page \in Pages :
    LET once == Upsert(customers, s, page, now + 1)
        twice == Upsert(once, s, page, now + 2)
    IN /\ Content(twice) = Content(once)
       /\ \A st \in storeConfigs : CountIn(twice, st) = CountIn(once, st)

\* a batch whose content the table already held has been written again in
\* full and is about to be committed
C14_Witness ==
  /\ tx # NoTx
  /\ Len(tx.page) > 0
  /\ tx.done = Len(tx.page)
  /\ tx.cache # customers
  /\ Content(tx.cache) = Content(customers)

\* C15: the committed table, which is what every reader and every restart
\* sees, changes only at the commit of a batch whose rows have all been
\* written, and then by the whole batch; a transaction that ends before its
\* last row leaves the table as it was.
C15_AtomicPage ==
  [][/\ customers' # customers =>
          /\ tx # NoTx
          /\ tx.done = Len(tx.page)
          /\ tx' = NoTx
          /\ customers' = Upsert(customers, tx.store, tx.page, tx.t)
     /\ (tx # NoTx /\ tx' = NoTx /\ tx.done < Len(tx.page)) =>
          customers' = customers]_vars

\* a batch is half written: some of its rows are in the transaction and not
\* in the table
C15_Witness ==
  /\ tx # NoTx
  /\ tx.done > 0
  /\ tx.done < Len(tx.page)
  /\ Content(tx.cache) # Content(customers)

\* C16: a save into one store leaves the rows of every other store, and so
\* their number, as they were, also a row with the id of a saved customer.
C16_KeyedByCollection ==
  [][\A s \in storeConfigs :
       (tx # NoTx /\ tx.store # s) => RowsOf(customers', s) = RowsOf(customers, s)]_vars

\* the number of page requests for a shop of n customers
Requests(n) ==
  IF n = 0 THEN 1
  ELSE (n + CUSTOMERS_PER_REQUEST - 1) \div CUSTOMERS_PER_REQUEST

\* the run of p was begun by a start request, for a new job
FreshRun(p) == task[p].argStatus = "none"

\* the run of p marks its job completed
RunCompletes(p) == Complete(p) \/ FetchEmptyPage(p)

\* C17: a run begun by a start request for a shop of N customers that meets
\* no failure saves the min(S, N - S(b - 1)) customers of its b-th request,
\* and marks its job completed after ceil(N / S) requests (one for N = 0)
\* with processedCustomers = totalCustomers = N and N customers of the store
\* in the cache.
C17_AllRecordsFetched ==
  [][\A p \in storeConfigs :
       LET s == task[p].store
           N == Len(upstream[s])
           i == JobIndex(task[p].jobId)
           page == PageNodes(s, task[p].cursor)
       IN  /\ (FreshRun(p) /\ SavePage(p)) =>
                /\ Len(page) =
                     Min(CUSTOMERS_PER_REQUEST,
                         N - CUSTOMERS_PER_REQUEST * (task[p].batchNumber - 1))
                /\ \A k \in DOMAIN page :
                     \E r \in RowsOf(customers', s) : r.id = page[k].id
           /\ (FreshRun(p) /\ RunCompletes(p)) =>
                /\ task[p].batchNumber = Requests(N)
                /\ jobs'[i].status = "completed"
                /\ jobs'[i].processedCustomers = N
                /\ jobs'[i].totalCustomers = N
                /\ CountIn(customers', s) = N]_vars

\* a shop of two full pages and a partial one has been fetched with three
\* requests
C17_Witness ==
  /\ Len(upstream["A"]) = 2 * CUSTOMERS_PER_REQUEST + 1
  /\ task["A"].pc = "csv"
  /\ FreshRun("A")
  /\ task["A"].batchNumber = 3
  /\ getExportJob(task["A"].jobId).status = "completed"
  /\ getExportJob(task["A"].jobId).processedCustomers = Len(upstream["A"])
  /\ getCustomerCount("A") = Len(upstream["A"])

\* C18: for a shop without customers the answer to the first request is an
\* empty page with hasNextPage false, and the run that gets it marks its job
\* completed with processedCustomers = totalCustomers = 0 and writes no row.
C18_EmptyShopCompletes ==
  [][\A p \in storeConfigs :
       LET s == task[p].store
           i == JobIndex(task[p].jobId)
       IN  (/\ task[p].pc = "waiting"
            /\ task'[p].pc # "waiting"
            /\ Len(upstream[s]) = 0
            /\ ~RunFails(p)) =>
             /\ task[p].batchNumber = 1
             /\ PageEdges(s, task[p].cursor) = {}
             /\ ~HasNextPage(s, task[p].cursor)
             /\ jobs'[i].status = "completed"
             /\ jobs'[i].error = ""
             /\ jobs'[i].processedCustomers = 0
             /\ jobs'[i].totalCustomers = 0
             /\ customers' = customers
             /\ RowsOf(customers', s) = {}]_vars

\* the job of a shop without customers is completed and the cache is empty
C18_Witness ==
  \E j \in Range(jobs) :
    /\ Len(upstream[j.storeName]) = 0
    /\ j.status = "completed"
    /\ j.processedCustomers = 0
    /\ j.totalCustomers = 0
    /\ RowsOf(customers, j.storeName) = {}

\* C19: exportCustomersToCSV for a store without a row in the cache fails,
\* whatever jobs the store has: the export-csv route answers 500 and the CSV
\* step of a background task ends without a file, and neither changes a job
\* or a customer row.
C19_EmptyCacheNoCsv ==
  [][/\ (/\ resp'.op = "csv"
          /\ resp'.store \in storeConfigs
          /\ ~HasCustomers(resp'.store)) =>
            /\ resp'.code = 500
            /\ UNCHANGED <<jobs, customers, activeExports, task>>
     /\ \A p \in storeConfigs :
          (/\ task[p].pc = "csv"
           /\ task'[p].pc # "csv"
           /\ getCustomerCount(task[p].store) = 0) =>
             UNCHANGED <<jobs, customers>>]_vars

\* the route has answered 500 for a store without a cached customer whose
\* newest job is completed
C19_Witness ==
  /\ resp.op = "csv"
  /\ resp.code = 500
  /\ resp.store \in storeConfigs
  /\ getCustomerCount(resp.store) = 0
  /\ StoreJobs(resp.store) # {}
  /\ Latest(StoreJobs(resp.store)).status = "completed"

\* C20: a request that names no key of storeConfigs is answered 400 and
\* changes nothing; a run for a store without domain or access token adds
\* and changes no job and no customer row; and the lock of such a store is
\* never taken.
C20_InvalidStoreRejected ==
  [][/\ (resp' # NoResp /\ resp'.store \notin storeConfigs) =>
          /\ resp'.code = 400
          /\ UNCHANGED <<jobs, customers, activeExports, task>>
     /\ \A p \in storeConfigs :
          (/\ task[p].pc = "start"
           /\ task[p].store \notin configured
           /\ task'[p] # task[p]) =>
             UNCHANGED <<jobs, customers>>
     /\ activeExports' \subseteq configured]_vars

\* C21: a call of exportCustomersToCSV, by the export-csv route or as the
\* CSV step of a background task, leaves the table of jobs as it was.
C21_CsvLeavesJobs ==
  [][/\ (resp'.op = "csv" /\ resp'.store \in storeConfigs) => jobs' = jobs
     /\ \A p \in storeConfigs :
          (task[p].pc = "csv" /\ task'[p].pc # "csv") => jobs' = jobs]_vars

RECURSIVE ParseFrom(_, _, _, _)
ParseFrom(line, mode, field, fields) ==
  IF line = <<>> THEN Append(fields, field)
  ELSE LET c == Head(line)
           rest == Tail(line)
       IN  IF mode = "start" /\ c = Quote
             THEN ParseFrom(rest, "quoted", <<>>, fields)
           ELSE IF mode \in {"start", "plain", "closed"} /\ c = Comma
             THEN ParseFrom(rest, "start", <<>>, Append(fields, field))
           ELSE IF mode \in {"start", "plain"}
             THEN ParseFrom(rest, "plain", Append(field, c), fields)
           ELSE IF mode = "quoted" /\ c = Quote
             THEN ParseFrom(rest, "closed", field, fields)
           ELSE IF mode = "quoted"
             THEN ParseFrom(rest, "quoted", Append(field, c), fields)
           ELSE IF c = Quote
             THEN ParseFrom(rest, "quoted", Append(field, Quote), fields)
           ELSE <<>>

ParseLine(line) == ParseFrom(line, "start", <<>>, <<>>)

\* C23: every line of a file, read by the rules of RFC 4180, gives back the
\* id, the first name and the note of the customer it was written for.
C23_CsvRoundTrip ==
  csv # NoCsv =>
    \E o \in getCustomersByStore(csv.store) :
      /\ Len(o) = Len(csv.lines)
      /\ \A k \in DOMAIN o :
           LET fields == ParseLine(csv.lines[k])
           IN  /\ Len(fields) = Len(headers)
               /\ fields[1] = Customer(o[k]).id
               /\ fields[2] = Customer(o[k]).firstName
               /\ fields[4] = Customer(o[k]).note

\* the step is one of the run of process p and of no other run
StepOf(p) ==
  /\ task[p].pc # "idle"
  /\ task'[p] # task[p]
  /\ \A q \in Procs \ {p} : task'[q] = task[q]

\* C24: a start or resume request for a store is answered 409 only when the
\* store's own lock is set, and a step of the server's run for one store
\* changes no job and no cached customer of another store.
C24_StoresIndependent ==
  [][/\ \A s \in storeConfigs :
          (Answered(s) /\ resp'.code = 409) => s \in activeExports
     /\ \A p \in storeConfigs :
          StepOf(p) =>
            /\ \A i \in DOMAIN jobs :
                 jobs[i].storeName # task[p].store => jobs'[i] = jobs[i]
            /\ \A s \in storeConfigs \ {task[p].store} :
                 RowsOf(customers', s) = RowsOf(customers, s)]_vars

\* C25: the jobId in the answer to an accepted start request is the id of a
\* job, and not of a job that was in the table before the request.
C25_StartAnswersItsJob ==
  [][\A s \in storeConfigs :
       (Answered(s) /\ resp'.op = "start" /\ resp'.code = 200) =>
         /\ resp'.jobId # NoJob
         /\ resp'.jobId \notin JobIds]_vars

\* the cursor or the processed count of the i-th job changes
CheckpointMoves(i) ==
  \/ jobs'[i].lastCursor # jobs[i].lastCursor
  \/ jobs'[i].processedCustomers # jobs[i].processedCustomers

\* the customers of the page the run of p has asked for are cached
PageCached(p) ==
  LET page == PageNodes(task[p].store, task[p].cursor)
  IN  \A k \in DOMAIN page :
        \E r \in RowsOf(customers, task[p].store) : r.id = page[k].id

\* C26: the cursor and the processed count of a job change only in the step
\* of a run that follows its save of a page, when every customer of that
\* page is in the cache, and they then cover that page; a save that fails
\* leaves both as they were.
C26_CheckpointAfterSave ==
  [][/\ \A i \in DOMAIN jobs :
          CheckpointMoves(i) =>
            \E p \in Procs :
              /\ StepOf(p)
              /\ task[p].pc = "checkpoint"
              /\ task[p].jobId = jobs[i].id
              /\ PageCached(p)
              /\ jobs'[i].lastCursor = EndCursor(task[p].store, task[p].cursor)
              /\ jobs'[i].processedCustomers =
                   task[p].total + Len(PageNodes(task[p].store, task[p].cursor))
     /\ \A p \in Procs :
          SavePageThrows(p) =>
            /\ ~CheckpointMoves(JobIndex(task[p].jobId))
            /\ customers' = customers]_vars

\* the process has died between the save of a page and its checkpoint: the
\* job is in_progress, no run works on it, and the cache holds more
\* customers of its store than the job counts
C26_Witness ==
  \E j \in Range(jobs) :
    /\ Len(jobs) = 1
    /\ j.status = "in_progress"
    /\ \A p \in Procs : task[p].pc = "idle"
    /\ getCustomerCount(j.storeName) > j.processedCustomers

SendsRequest(p) == task[p].pc # "waiting" /\ task'[p].pc = "waiting"

\* C28: a run sends a request only when it has none outstanding, at its
\* beginning or after the delay that follows a checkpointed page; the first
\* request of a run begun by a start request carries the null cursor; the
\* run takes its cursor from the endCursor of the page it has checkpointed
\* and sends its next request with that cursor unchanged.
C28_SequentialPaging ==
  [][\A p \in Procs :
       /\ SendsRequest(p) =>
            /\ task[p].pc \in {"setInProgress", "delay"}
            /\ task'[p].batchNumber = task[p].batchNumber + 1
            /\ task'[p].cursor = task[p].cursor
       /\ (SendsRequest(p) /\ task[p].pc = "setInProgress" /\ FreshRun(p)) =>
            /\ task'[p].batchNumber = 1
            /\ task'[p].cursor = 0
       /\ Checkpoints(p) =>
            task'[p].cursor = EndCursor(task[p].store, task[p].cursor)
       /\ (StepOf(p) /\ ~Checkpoints(p) /\ task'[p].pc # "idle"
             /\ task[p].pc \notin {"start"}) =>
            task'[p].cursor = task[p].cursor]_vars

\* the second request of a run begun by a start request is outstanding and
\* carries the endCursor of the first page
C28_Witness ==
  \E p \in Procs :
    /\ task[p].pc = "waiting"
    /\ FreshRun(p)
    /\ task[p].batchNumber = 2
    /\ task[p].cursor = EndCursor(task[p].store, 0)
    /\ task[p].cursor # 0

\* the ids createExportJob can give
AllJobIds == {<<s, t>> : s \in storeConfigs, t \in 1..MaxRuns}

\* job id is in the table and neither completed nor failed
Unfinished(id) ==
  id \in JobIds /\ getExportJob(id).status \in {"pending", "in_progress"}

\* C29: with a shop that answers every request and an event loop that runs
\* what is ready, every run of the server ends, every job a run works on
\* becomes completed or failed, and every lock that is set is released.
C29_RunsEnd ==
  /\ \A p \in storeConfigs : (task[p].pc # "idle") ~> (task[p].pc = "idle")
  /\ \A id \in AllJobIds : Unfinished(id) ~> (id \in JobIds /\ ~Unfinished(id))
  /\ \A s \in storeConfigs : (s \in activeExports) ~> (s \notin activeExports)

\* a job that failed after its first page has been resumed and completed,
\* and the lock of its store is free
C29_Witness ==
  \E j \in Range(jobs) :
    /\ j.status = "completed"
    /\ j.error # ""
    /\ j.storeName \notin activeExports
    /\ task[j.storeName].pc = "idle"

\* the most recently started job of store s that is not completed
NewestOpenJob(s) ==
  LET c == {j \in StoreJobs(s) : j.status # "completed"}
  IN  IF c = {} THEN NullJob ELSE Latest(c)

\* C30: a resume request without a job id picks the most recently started
\* job of the store that is not completed; a request with a job id picks the
\* job of that id or none.
C30_ResumeTarget ==
  \A s \in storeConfigs :
    (Ready /\ ~ResumeLocked(s)) =>
      /\ JobToResume(s, NoJob) = NewestOpenJob(s)
      /\ \A id \in ResumeIds \ {NoJob} :
           JobToResume(s, id) # NullJob => JobToResume(s, id).id = id

\* the rows in the one order that is descending in updated_at and, among
\* rows of the same updated_at, ascending in id
CachedAtThenId(rows) ==
  CHOOSE o \in [1..Cardinality(rows) -> rows] :
    \A i, j \in DOMAIN o :
      i < j => \/ o[i].updated_at > o[j].updated_at
               \/ o[i].updated_at = o[j].updated_at /\ o[i].id < o[j].id

\* the lines of a file written from the rows in order o
LinesFor(o) ==
  [k \in DOMAIN o |-> csvRowToLine(customerToCSVRow(Customer(o[k])))]

\* C31: the rows getCustomersByStore hands to the writer of the file are the
\* rows of the store, newest updated_at first and, among rows of the same
\* updated_at, smallest id first.
C31_OrderedRead ==
  csv # NoCsv =>
    /\ \A r \in csv.cache : r.store_name = csv.store
    /\ csv.lines = LinesFor(CachedAtThenId(csv.cache))

\* the row object of customerToCSVRow, by the names of its keys
RowObject(customer) ==
  [id |-> customerToCSVRow(customer)[1],
   firstName |-> customerToCSVRow(customer)[2],
   verifiedEmail |-> customerToCSVRow(customer)[3],
   note |-> customerToCSVRow(customer)[4],
   tags |-> customerToCSVRow(customer)[5],
   numberOfOrders |-> customerToCSVRow(customer)[6]]

\* C32: a file that was written has the header with the names of the
\* columns and one line per row of the store in the cache; a line read by
\* the rules of RFC 4180 has one field per column, and the field at a
\* position is the value of the row object under the name at that position.
C32_HeaderAndRows ==
  (csv # NoCsv /\ csv.error = "") =>
    /\ ParseLine(csv.header) = headers
    /\ \E o \in [1..Len(csv.lines) -> csv.cache] :
         /\ \A r \in csv.cache : \E k \in DOMAIN o : o[k] = r
         /\ \A k, m \in DOMAIN o : k # m => o[k] # o[m]
         /\ \A k \in DOMAIN o :
              LET fields == ParseLine(csv.lines[k])
              IN  /\ Len(fields) = Len(headers)
                  /\ \A i \in DOMAIN headers :
                       fields[i] = RowObject(Customer(o[k]))[headers[i][1]]

\* a file of two lines, one of them for a customer whose first name is a comma
C32_Witness ==
  /\ csv.error = ""
  /\ Len(csv.lines) = 2
  /\ \E r \in csv.cache : r.data.firstName = <<Comma>> /\ r.data.note = <<Quote>>

\* the columns whose values are texts, numbers or booleans
ScalarColumns == {"firstName", "verifiedEmail", "note", "numberOfOrders"}

\* C33: a file is written whatever fields of a payload are absent, and a
\* line holds the empty text at the position of every scalar column whose
\* field is absent in the payload of its customer.
C33_AbsentIsEmpty ==
  /\ csv.error = ""
  /\ csv # NoCsv =>
       \A k \in DOMAIN csv.lines :
         \E r \in csv.cache :
           LET fields == ParseLine(csv.lines[k])
           IN  /\ fields[1] = Customer(r).id
               /\ \A i \in DOMAIN headers :
                    (/\ headers[i][1] \in ScalarColumns
                     /\ Customer(r)[headers[i][1]] = Null) => fields[i] = <<>>

\* C34: the error of a job is written only by a step that leaves the job
\* failed, and a job that a step leaves completed has no error, also when
\* the job had failed before and was resumed.
C34_ErrorOnlyOnFailed ==
  [][\A i \in DOMAIN jobs' :
       /\ jobs'[i].status = "completed" => jobs'[i].error = ""
       /\ (i \in DOMAIN jobs /\ jobs'[i].error # jobs[i].error) =>
            jobs'[i].status = "failed"]_vars

\* C35: totalCustomers is written only by the step that leaves the job
\* completed: a job that is pending, in_progress or failed has the 0 it was
\* created with.
C35_TotalOnlyOnCompleted ==
  \A j \in Range(jobs) :
    j.status \in {"pending", "in_progress", "failed"} => j.totalCustomers = 0

\* C36: no step removes a row of the table of jobs, and no step changes the
\* id, the store or startedAt of a row.
C36_JobsRetained ==
  [][/\ Len(jobs') >= Len(jobs)
     /\ \A i \in DOMAIN jobs :
          /\ jobs'[i].id = jobs[i].id
          /\ jobs'[i].storeName = jobs[i].storeName
          /\ jobs'[i].startedAt = jobs[i].startedAt]_vars

\* a completed job is still in the table after a later job was created
C36_Witness ==
  /\ Len(jobs) = 2
  /\ jobs[1].status = "completed"
  /\ jobs[1].processedCustomers > 0
  /\ jobs[2].startedAt > jobs[1].startedAt

\* C37: a step that is not a purge never makes the count of a store
\* smaller; a purge of a store removes the rows of that store and no other
\* row, and leaves the jobs as they were.
C37_OnlyPurgeRemoves ==
  [][/\ (\A a \in storeConfigs : ~Purge(a)) =>
          \A s \in storeConfigs :
            CountIn(customers', s) >= CountIn(customers, s)
     /\ \A a \in storeConfigs :
          Purge(a) => /\ customers' = customers \ RowsOf(customers, a)
                      /\ jobs' = jobs]_vars

\* the page the run of p holds is not the last one of the shop's list
MoreAfterPage(p) ==
  task[p].cursor + CUSTOMERS_PER_REQUEST < Len(upstream[task[p].store])

\* the run of p begins to wait DELAY_BETWEEN_REQUESTS_MS
DelayBegins(p) == task[p].pc # "delay" /\ task'[p].pc = "delay"

\* C38: a run begins a delay exactly after the checkpoint of a page that is
\* not the last, the delay ends with the next request, and every request
\* but the first of a run is sent at the end of a delay; no delay follows
\* the last page or a failed request.
C38_DelayBetweenPages ==
  [][\A p \in Procs :
       /\ DelayBegins(p) => task[p].pc = "checkpoint" /\ MoreAfterPage(p)
       /\ (StepOf(p) /\ task[p].pc = "checkpoint" /\ task'[p].pc # "idle") =>
            (DelayBegins(p) <=> MoreAfterPage(p))
       /\ (StepOf(p) /\ task[p].pc = "delay" /\ task'[p].pc # "idle") =>
            SendsRequest(p)
       /\ (SendsRequest(p) /\ task'[p].batchNumber > 1) => task[p].pc = "delay"
       /\ (SendsRequest(p) /\ task'[p].batchNumber = 1) =>
            task[p].pc = "setInProgress"
       /\ (\E e \in FetchErrors : FetchError(p, e)) => task'[p].pc = "idle"]_vars

\* a run is at its third request: two delays were taken
C38_Witness ==
  \E p \in storeConfigs : task[p].pc = "waiting" /\ task[p].batchNumber = 3

\* C39: every call of createExportJob adds a row whose id is the id of no
\* row that is already in the table, also when the clock shows the value it
\* showed at the last creation for the same store.
C39_FreshJobId ==
  [][\A p \in Procs :
       (FetchStartCreate(p) \/ FetchStartCreateThrows(p)) =>
         /\ Len(jobs') = Len(jobs) + 1
         /\ jobs'[Len(jobs')].id \notin JobIds]_vars

\* process p is inside fetchAndSaveCustomers with a job
Drives(p) == task[p].pc \notin {"idle", "start", "csv"} /\ task[p].jobId \in JobIds

\* C40: a run works on a job of the store it was started for, and no two
\* runs work on the same job at the same time.
C40_OneRunPerJob ==
  \A p \in Procs :
    /\ (task[p].pc = "start" /\ task[p].jobArg \in JobIds) =>
         getExportJob(task[p].jobArg).storeName = task[p].store
    /\ Drives(p) =>
         /\ getExportJob(task[p].jobId).storeName = task[p].store
         /\ \A q \in Procs \ {p} : Drives(q) => task[q].jobId # task[p].jobId
====
